---- MODULE Spec2Model ----
(***************************************************************************)
(* Model of src/main.py: the sequential orchestration of main() over the   *)
(* target groups, devices and interfaces of a YAML configuration, with the *)
(* per-host token cache, the four controller requests and the row-by-row   *)
(* Excel report.  Python dicts are functions whose DOMAIN is the set of    *)
(* keys present, so a missing key is a key outside the DOMAIN.             *)
(***************************************************************************)
EXTENDS Integers, Sequences, FiniteSets, TLC

\* ------------------------------------------------------------------ bounds
\* Longest target list of the configurations explored.
MaxGroups == 3
\* Longest interface list of a device entry.
MaxIfaces == 2

\* ------------------------------------------------------------- Python values
NONE == "None"
NA == "N/A"
NoRow == <<>>
NoCred == [host |-> NONE, username |-> NONE, password |-> NONE]

HasKey(dct, k) == k \in DOMAIN dct
\* dict.get(k, default)
Get(dct, k, default) == IF k \in DOMAIN dct THEN dct[k] ELSE default

\* --------------------------------------------------------- configurations
Ctl1 == [name |-> "DC1", ip |-> "10.0.0.1", username |-> "u1", password |-> "p1"]
Ctl2 == [name |-> "DC2", ip |-> "10.0.0.2", username |-> "u2", password |-> "p2"]
Ctl2SameHost == [name |-> "DC2", ip |-> "10.0.0.1", username |-> "u2", password |-> "p2"]
Ctl2NoIp == [name |-> "DC2", username |-> "u2", password |-> "p2"]
Ctl2NoPassword == [name |-> "DC2", ip |-> "10.0.0.2", username |-> "u2"]
CtlNoName == [ip |-> "10.0.0.2", username |-> "u2", password |-> "p2"]

AllIfaces == <<"Gi1/0/1", "Gi1/0/2", "Gi1/0/3", "Gi1/0/4">>
Ifaces(k) == SubSeq(AllIfaces, 1, k)

Dev(n, ifs) == [device_name |-> n, interfaces |-> ifs]
DevNoIfaces(n) == [device_name |-> n]
DevNoName(ifs) == [interfaces |-> ifs]
\* A device entry written as a bare string instead of a mapping ("- sw1").
DevScalar(n) == [scalar |-> n]
\* The entry is a mapping: it has a .get method.
IsMapping(entry) == ~HasKey(entry, "scalar")

\* A device entry with an empty interface list: the device list of the
\* groups of the documents that vary the controllers.
ProbeDevices == <<Dev("sw1", Ifaces(0))>>

\* One device with one interface.
LightDevices == <<Dev("sw1", Ifaces(1))>>

\* The device lists of the documents that vary the devices: every
\* interface-list length up to MaxIfaces, a second device behind the first,
\* an entry without interfaces, an entry without device_name, an entry that
\* is no mapping.
RichDevices ==
    {<<Dev("sw1", Ifaces(k)), Dev("sw2", Ifaces(1))>> : k \in 0..MaxIfaces}
      \cup {<<DevNoIfaces("sw1"), Dev("sw2", Ifaces(1))>>,
            <<DevNoName(Ifaces(1)), Dev("sw2", Ifaces(1))>>,
            <<Dev("sw1", Ifaces(1)), DevScalar("sw2"), Dev("sw3", Ifaces(0))>>}

Group(n, ds) == [dna_center_name |-> n, devices |-> ds]
GroupNoName(ds) == [devices |-> ds]
GroupNoDevices(n) == [dna_center_name |-> n]

ProbeGroups ==
    {Group(n, ProbeDevices) : n \in {"DC1", "DC2"}}
      \cup {GroupNoName(ProbeDevices), GroupNoDevices("DC1")}

SeqsUpTo(S, n) == UNION {[1..k -> S] : k \in 0..n}

Doc(dcs, tgs) == [dna_centers |-> dcs, targets |-> tgs]

ControllerLists ==
    {<<Ctl1>>, <<Ctl1, Ctl2>>, <<Ctl1, Ctl2SameHost>>, <<Ctl1, Ctl2NoIp>>,
     <<Ctl1, Ctl2NoPassword>>}

\* Documents that vary the controller list and the controller each group names.
ControllerDocs ==
    {Doc(dcs, tgs) : dcs \in ControllerLists, tgs \in SeqsUpTo(ProbeGroups, MaxGroups)}

\* Two groups with one interface each, on two controllers.
PairDocs ==
    {Doc(dcs, <<Group(n1, LightDevices), Group(n2, LightDevices)>>) :
        dcs \in {<<Ctl1, Ctl2>>, <<Ctl1, Ctl2SameHost>>}, n1 \in {"DC1", "DC2"},
        n2 \in {"DC1", "DC2"}}

\* Documents with one controller and one group that has a rich device list.
DeviceDocs == {Doc(<<Ctl1>>, <<Group("DC1", ds)>>) : ds \in RichDevices}

\* Documents with a structural defect: no controller list, an empty one, a
\* controller entry without a name, no target list.
DefectDocs ==
    {[targets |-> <<Group("DC1", LightDevices)>>],
     Doc(<<>>, <<Group("DC1", LightDevices)>>),
     Doc(<<Ctl1, CtlNoName>>, <<Group("DC1", LightDevices)>>),
     [dna_centers |-> <<Ctl1>>]}

EmptyDict == [k \in {} |-> NONE]

\* The configuration file as load_config finds it.
ConfigFiles ==
    {[state |-> "missing", doc |-> EmptyDict], [state |-> "malformed", doc |-> EmptyDict]}
      \cup {[state |-> "ok", doc |-> doc] : doc \in ControllerDocs \cup PairDocs \cup DeviceDocs \cup DefectDocs}

\* ------------------------------------------------------------------ state
VARIABLES
    config_file,         \* the file args.config names
    pc,                  \* position of main()
    config,              \* the loaded document
    dna_centers_config,  \* name -> controller entry
    targets,             \* the target list
    token_cache,         \* host -> token
    g, d, i,             \* positions in targets, devices, interfaces (1-based)
    token,               \* the token of the current group
    device_id,
    interface_id,
    oper_status,
    report,              \* rows of the workbook, header first; <<>> before it exists
    trace,               \* every controller request and every append attempt, in order
    log,                 \* the error and skip messages printed
    exit_code            \* the status the process ends with

vars == <<config_file, pc, config, dna_centers_config, targets, token_cache, g, d, i,
          token, device_id, interface_id, oper_status, report, trace, log, exit_code>>

HEADERS == <<"DNA Center", "Device Name", "Interface Name", "Interface Status",
             "Tx Utilization (%)", "Rx Utilization (%)">>

Init ==
    /\ config_file \in ConfigFiles
    /\ pc = "args"
    /\ config = EmptyDict
    /\ dna_centers_config = EmptyDict
    /\ targets = <<>>
    /\ token_cache = EmptyDict
    /\ g = 0 /\ d = 0 /\ i = 0
    /\ token = NoCred
    /\ device_id = NONE
    /\ interface_id = NONE
    /\ oper_status = NONE
    /\ report = <<>>
    /\ trace = <<>>
    /\ log = <<>>
    /\ exit_code = 0

\* ------------------------------------------------- the current loop items
target_group == targets[g]
dna_center_name == Get(target_group, "dna_center_name", NONE)
devices_to_process == Get(target_group, "devices", <<>>)
dna_center_details == dna_centers_config[dna_center_name]
CATALYST_CENTER_IP == dna_center_details["ip"]
USERNAME == dna_center_details["username"]
PASSWORD == dna_center_details["password"]
device_entry == devices_to_process[d]
device_name == Get(device_entry, "device_name", NONE)
interfaces_to_process == device_entry["interfaces"]
\* Variant of interface_name: the interface list is walked from its end.
interface_name_reversed == interfaces_to_process[Len(interfaces_to_process) + 1 - i]

interface_name == interfaces_to_process[i]

\* ----------------------------------------------------- events and messages
\* A controller request: the operation, the host and the credentials or token
\* sent, the loop position, and how the controller answered.
Request(op, cred, gi, di, ii, res) ==
    [op |-> op, host |-> CATALYST_CENTER_IP, cred |-> cred, g |-> gi, d |-> di, i |-> ii,
     row |-> NoRow, res |-> res]

\* A call of append_to_excel_report with its row and whether the save worked.
AppendEvent(row, ok) ==
    [op |-> "append", host |-> NONE, cred |-> NoCred, g |-> g, d |-> d, i |-> i,
     row |-> row, res |-> IF ok THEN "ok" ELSE "fail"]

Msg(text) == [msg |-> text, g |-> g, d |-> d, i |-> i]

\* ------------------------------------------------------------------- rows
DeviceNotFoundRow(dc, dev) == <<dc, dev, NA, "Device Not Found", NA, NA>>
InterfaceNotFoundRow(dc, dev, ifn) == <<dc, dev, ifn, "Interface Not Found", NA, NA>>
ResultRow(dc, dev, ifn, st, tx, rx) == <<dc, dev, ifn, st, tx, rx>>
ApiErrorRow(dc, dev) == <<dc, dev, NA, "API Error", NA, NA>>
UnexpectedErrorRow(dc, dev) == <<dc, dev, NA, "Unexpected Error", NA, NA>>

\* Variant of append_to_excel_report: the row is kept in memory and the
\* workbook is not saved.
AppendBuffered(rep, row, ok) == rep

\* append_to_excel_report: the row reaches the workbook unless load or save
\* raises, which is printed and swallowed.
append_to_excel_report(rep, row, ok) == IF ok THEN Append(rep, row) ELSE rep
AppendLog(lg, ok) == IF ok THEN lg ELSE Append(lg, Msg("Error appending data to Excel file"))

\* --------------------------------------------------------- start of main()
\* parser.parse_args(): a bad command line leaves through SystemExit(2),
\* outside the try block.
ParseArgsExit == 2

ParseArgs ==
    /\ pc = "args"
    /\ \E ok \in BOOLEAN :
         /\ pc' = IF ok THEN "load" ELSE "done"
         /\ exit_code' = IF ok THEN exit_code ELSE ParseArgsExit
         /\ log' = IF ok THEN log ELSE Append(log, Msg("usage: error"))
    /\ UNCHANGED <<config_file, config, dna_centers_config, targets, token_cache, g, d, i,
                   token, device_id, interface_id, oper_status, report, trace>>

\* The status main() ends with after one of its outer except clauses printed.
HandlerExit == 0

\* The outer except clauses of main(): print and fall off the end of main().
Abort(text) ==
    /\ pc' = "done"
    /\ log' = Append(log, Msg(text))
    /\ exit_code' = HandlerExit

LoadMissing ==
    /\ pc = "load"
    /\ config_file.state = "missing"
    /\ Abort("Configuration Error: FileNotFoundError")
    /\ UNCHANGED <<config_file, config, dna_centers_config, targets, token_cache, g, d, i,
                   token, device_id, interface_id, oper_status, report, trace>>

LoadMalformed ==
    /\ pc = "load"
    /\ config_file.state = "malformed"
    /\ Abort("Configuration Error: ValueError")
    /\ UNCHANGED <<config_file, config, dna_centers_config, targets, token_cache, g, d, i,
                   token, device_id, interface_id, oper_status, report, trace>>

LoadOk ==
    /\ pc = "load"
    /\ config_file.state = "ok"
    /\ config' = config_file.doc
    /\ pc' = "setup"
    /\ UNCHANGED <<config_file, dna_centers_config, targets, token_cache, g, d, i,
                   token, device_id, interface_id, oper_status, report, trace, log, exit_code>>

load_config == LoadMissing \/ LoadMalformed \/ LoadOk

\* {dc['name']: dc for dc in ...}: a later entry of the same name wins.
DictByName(dcs) ==
    [n \in {dcs[k]["name"] : k \in DOMAIN dcs} |->
        dcs[CHOOSE k \in DOMAIN dcs :
              /\ dcs[k]["name"] = n
              /\ \A j \in DOMAIN dcs : j > k => dcs[j]["name"] # n]]

SetupKeyError ==
    /\ pc = "setup"
    /\ \E k \in DOMAIN Get(config, "dna_centers", <<>>) :
          ~HasKey(Get(config, "dna_centers", <<>>)[k], "name")
    /\ Abort("Configuration Error: Missing key")
    /\ UNCHANGED <<config_file, config, dna_centers_config, targets, token_cache, g, d, i,
                   token, device_id, interface_id, oper_status, report, trace>>

SetupNoControllers ==
    /\ pc = "setup"
    /\ Get(config, "dna_centers", <<>>) = <<>>
    /\ targets' = Get(config, "targets", <<>>)
    /\ log' = Append(log, Msg("Error: No 'dna_centers' defined"))
    /\ pc' = "done"
    /\ UNCHANGED <<config_file, config, dna_centers_config, token_cache, g, d, i,
                   token, device_id, interface_id, oper_status, report, trace, exit_code>>

SetupNoTargets ==
    /\ pc = "setup"
    /\ Get(config, "dna_centers", <<>>) # <<>>
    /\ \A k \in DOMAIN config["dna_centers"] : HasKey(config["dna_centers"][k], "name")
    /\ Get(config, "targets", <<>>) = <<>>
    /\ dna_centers_config' = DictByName(config["dna_centers"])
    /\ targets' = <<>>
    /\ log' = Append(log, Msg("Warning: No 'targets' defined"))
    /\ pc' = "done"
    /\ UNCHANGED <<config_file, config, token_cache, g, d, i,
                   token, device_id, interface_id, oper_status, report, trace, exit_code>>

\* initialize_excel_report: a fresh workbook holding the header row.
initialize_excel_report == <<HEADERS>>

SetupOk ==
    /\ pc = "setup"
    /\ Get(config, "dna_centers", <<>>) # <<>>
    /\ \A k \in DOMAIN config["dna_centers"] : HasKey(config["dna_centers"][k], "name")
    /\ Get(config, "targets", <<>>) # <<>>
    /\ dna_centers_config' = DictByName(config["dna_centers"])
    /\ targets' = config["targets"]
    /\ report' = initialize_excel_report
    /\ token_cache' = EmptyDict
    /\ g' = 1
    /\ pc' = "group"
    /\ UNCHANGED <<config_file, config, d, i,
                   token, device_id, interface_id, oper_status, trace, log, exit_code>>

Setup == SetupKeyError \/ SetupNoControllers \/ SetupNoTargets \/ SetupOk

cfgVars == <<config_file, config, dna_centers_config, targets>>
ifaceVars == <<device_id, interface_id, oper_status>>

\* ------------------------------------------------ the target-group loop
GroupsDone ==
    /\ pc = "group"
    /\ g > Len(targets)
    /\ pc' = "done"
    /\ UNCHANGED <<cfgVars, token_cache, g, d, i, token, ifaceVars, report, trace, log,
                   exit_code>>

GroupSkipNoName ==
    /\ pc = "group"
    /\ g <= Len(targets)
    /\ dna_center_name = NONE
    /\ log' = Append(log, Msg("Skipping target group due to missing 'dna_center_name'"))
    /\ g' = g + 1
    /\ UNCHANGED <<cfgVars, pc, token_cache, d, i, token, ifaceVars, report, trace,
                   exit_code>>

\* Variant of GroupSkipUnknown: the unknown name is looked up with
\* dna_centers_config[name], whose KeyError ends the run.
GroupSkipUnknownAbort ==
    /\ pc = "group"
    /\ g <= Len(targets)
    /\ dna_center_name # NONE
    /\ ~HasKey(dna_centers_config, dna_center_name)
    /\ Abort("Configuration Error: Missing key")
    /\ UNCHANGED <<cfgVars, token_cache, g, d, i, token, ifaceVars, report, trace>>

GroupSkipUnknown ==
    /\ pc = "group"
    /\ g <= Len(targets)
    /\ dna_center_name # NONE
    /\ ~HasKey(dna_centers_config, dna_center_name)
    /\ log' = Append(log, Msg("Error: DNA Center not found in 'dna_centers'"))
    /\ g' = g + 1
    /\ UNCHANGED <<cfgVars, pc, token_cache, d, i, token, ifaceVars, report, trace,
                   exit_code>>

\* dna_center_details['ip'], ['username'], ['password']
RequiredKeys == {"ip", "username", "password"}

GroupKeyError ==
    /\ pc = "group"
    /\ g <= Len(targets)
    /\ dna_center_name # NONE
    /\ HasKey(dna_centers_config, dna_center_name)
    /\ ~(RequiredKeys \subseteq DOMAIN dna_center_details)
    /\ Abort("Configuration Error: Missing key")
    /\ UNCHANGED <<cfgVars, token_cache, g, d, i, token, ifaceVars, report, trace>>

GroupResolved ==
    /\ pc = "group"
    /\ g <= Len(targets)
    /\ dna_center_name # NONE
    /\ HasKey(dna_centers_config, dna_center_name)
    /\ RequiredKeys \subseteq DOMAIN dna_center_details
    /\ pc' = "auth"
    /\ UNCHANGED <<cfgVars, token_cache, g, d, i, token, ifaceVars, report, trace, log,
                   exit_code>>

GroupStep ==
    GroupsDone \/ GroupSkipNoName \/ GroupSkipUnknown \/ GroupKeyError \/ GroupResolved

\* ----------------------------------------------------- token acquisition
\* Variant of CacheMiss: the cache is never consulted.
CacheMissAlways(cache, ip) == TRUE

\* if CATALYST_CENTER_IP not in token_cache
CacheMiss(cache, ip) == ip \notin DOMAIN cache

\* Variant of CacheStore: the cache is rebound to a dict holding the new
\* token only.
CacheStoreOnly(cache, ip, tok) == [h \in {ip} |-> tok]

\* token_cache[CATALYST_CENTER_IP] = token
CacheStore(cache, ip, tok) ==
    [h \in DOMAIN cache \cup {ip} |-> IF h = ip THEN tok ELSE cache[h]]

\* The token the controller at ip issues to these credentials.
get_token(ip, username, password) ==
    [host |-> ip, username |-> username, password |-> password]

Credentials == [host |-> CATALYST_CENTER_IP, username |-> USERNAME, password |-> PASSWORD]

AuthCached ==
    /\ pc = "auth"
    /\ ~CacheMiss(token_cache, CATALYST_CENTER_IP)
    /\ token' = token_cache[CATALYST_CENTER_IP]
    /\ d' = 1
    /\ pc' = "device"
    /\ UNCHANGED <<cfgVars, token_cache, g, i, ifaceVars, report, trace, log, exit_code>>

AuthOk ==
    /\ pc = "auth"
    /\ CacheMiss(token_cache, CATALYST_CENTER_IP)
    /\ trace' = Append(trace, Request("token", Credentials, g, 0, 0, "ok"))
    /\ token' = get_token(CATALYST_CENTER_IP, USERNAME, PASSWORD)
    /\ token_cache' = CacheStore(token_cache, CATALYST_CENTER_IP, token')
    /\ d' = 1
    /\ pc' = "device"
    /\ UNCHANGED <<cfgVars, g, i, ifaceVars, report, log, exit_code>>

\* Variant of AuthTransportError: the except clause lacks its continue, so the
\* devices of the group are processed with the token left from before.
AuthTransportErrorNoSkip ==
    /\ pc = "auth"
    /\ CacheMiss(token_cache, CATALYST_CENTER_IP)
    /\ trace' = Append(trace, Request("token", Credentials, g, 0, 0, "transport"))
    /\ log' = Append(log, Msg("Error getting token"))
    /\ d' = 1
    /\ pc' = "device"
    /\ UNCHANGED <<cfgVars, token_cache, g, i, token, ifaceVars, report, exit_code>>

\* requests.post or raise_for_status raised a RequestException: print, continue.
AuthTransportError ==
    /\ pc = "auth"
    /\ CacheMiss(token_cache, CATALYST_CENTER_IP)
    /\ trace' = Append(trace, Request("token", Credentials, g, 0, 0, "transport"))
    /\ log' = Append(log, Msg("Error getting token"))
    /\ g' = g + 1
    /\ pc' = "group"
    /\ UNCHANGED <<cfgVars, token_cache, d, i, token, ifaceVars, report, exit_code>>

\* response.json()['Token'] raised KeyError: not a RequestException, so it
\* reaches the outer except KeyError of main().
AuthMalformed ==
    /\ pc = "auth"
    /\ CacheMiss(token_cache, CATALYST_CENTER_IP)
    /\ trace' = Append(trace, Request("token", Credentials, g, 0, 0, "malformed"))
    /\ Abort("Configuration Error: Missing key")
    /\ UNCHANGED <<cfgVars, token_cache, g, d, i, token, ifaceVars, report>>

AuthStep == AuthCached \/ AuthOk \/ AuthTransportError \/ AuthMalformed

\* ------------------------------------------------------- the device loop
\* Variant of Emit: append_to_excel_report lets its exception out, and the
\* except Exception of the device's try block writes an error row for it.
EmitErrorRowOnFailure(reqs, row, ok, text) ==
    /\ trace' = trace \o reqs \o
                   (IF ok THEN <<AppendEvent(row, TRUE)>>
                          ELSE <<AppendEvent(row, FALSE),
                                 AppendEvent(UnexpectedErrorRow(dna_center_name, device_name),
                                             TRUE)>>)
    /\ report' = IF ok THEN Append(report, row)
                       ELSE Append(report, UnexpectedErrorRow(dna_center_name, device_name))
    /\ log' = AppendLog(IF text = NONE THEN log ELSE Append(log, Msg(text)), ok)

\* A row handed to append_to_excel_report after the requests reqs were made.
Emit(reqs, row, ok, text) ==
    /\ trace' = trace \o reqs \o <<AppendEvent(row, ok)>>
    /\ report' = append_to_excel_report(report, row, ok)
    /\ log' = AppendLog(IF text = NONE THEN log ELSE Append(log, Msg(text)), ok)

NextDevice ==
    /\ d' = d + 1
    /\ i' = 0
    /\ pc' = "device"

\* Variant of HandleRequestException: the try block sits inside the interface
\* loop, so a failure on one interface moves on to the next interface.
HandleRequestExceptionPerInterface(reqs, ok) ==
    /\ Emit(reqs, ApiErrorRow(dna_center_name, device_name), ok, "Network or API Error")
    /\ IF pc \in {"iface", "util"}
          THEN /\ d' = d
               /\ i' = i + 1
               /\ pc' = "iface"
          ELSE NextDevice

\* except requests.exceptions.RequestException of the device's try block
HandleRequestException(reqs, ok) ==
    /\ Emit(reqs, ApiErrorRow(dna_center_name, device_name), ok, "Network or API Error")
    /\ NextDevice

\* Variant of HandleException: the except clause prints and writes no row.
HandleExceptionNoRow(reqs, ok) ==
    /\ trace' = trace \o reqs
    /\ report' = report
    /\ log' = Append(log, Msg("An unexpected error occurred"))
    /\ NextDevice

\* except Exception of the device's try block
HandleException(reqs, ok) ==
    /\ Emit(reqs, UnexpectedErrorRow(dna_center_name, device_name), ok,
            "An unexpected error occurred")
    /\ NextDevice

DevicesDone ==
    /\ pc = "device"
    /\ d > Len(devices_to_process)
    /\ g' = g + 1
    /\ d' = 0
    /\ pc' = "group"
    /\ UNCHANGED <<cfgVars, token_cache, i, token, ifaceVars, report, trace, log, exit_code>>

\* device_entry.get on an entry that is no mapping raises AttributeError
\* before the device's try block: the outer except Exception of main() ends
\* the run.
DeviceEntryNotMapping ==
    /\ pc = "device"
    /\ d <= Len(devices_to_process)
    /\ ~IsMapping(device_entry)
    /\ Abort("An unexpected error occurred during script execution")
    /\ UNCHANGED <<cfgVars, token_cache, g, d, i, token, ifaceVars, report, trace>>

DeviceSkipNoName ==
    /\ pc = "device"
    /\ d <= Len(devices_to_process)
    /\ IsMapping(device_entry)
    /\ device_name = NONE
    /\ log' = Append(log, Msg("Skipping device entry due to missing 'device_name'"))
    /\ d' = d + 1
    /\ UNCHANGED <<cfgVars, pc, token_cache, g, i, token, ifaceVars, report, trace,
                   exit_code>>

AtDevice ==
    /\ pc = "device"
    /\ d <= Len(devices_to_process)
    /\ IsMapping(device_entry)
    /\ device_name # NONE

DeviceRequest(res) == Request("device", token, g, d, 0, res)

\* get_device_id returned the id of the matching inventory entry.
DeviceFound ==
    /\ AtDevice
    /\ trace' = Append(trace, DeviceRequest("ok"))
    /\ device_id' = device_name
    /\ i' = 1
    /\ pc' = "iface"
    /\ UNCHANGED <<cfgVars, token_cache, g, d, token, interface_id, oper_status, report,
                   log, exit_code>>

\* Variant of DeviceNotFound: the branch lacks its continue and falls into the
\* interface loop with device_id None.
DeviceNotFoundNoContinue ==
    /\ AtDevice
    /\ \E ok \in BOOLEAN :
         Emit(<<DeviceRequest("notfound")>>,
              DeviceNotFoundRow(dna_center_name, device_name), ok,
              "Error: Device not found")
    /\ device_id' = NONE
    /\ i' = 1
    /\ pc' = "iface"
    /\ UNCHANGED <<cfgVars, token_cache, g, d, token, interface_id, oper_status, exit_code>>

\* get_device_id returned None: no inventory entry has the hostname.
DeviceNotFound ==
    /\ AtDevice
    /\ \E ok \in BOOLEAN :
         Emit(<<DeviceRequest("notfound")>>,
              DeviceNotFoundRow(dna_center_name, device_name), ok,
              "Error: Device not found")
    /\ device_id' = NONE
    /\ NextDevice
    /\ UNCHANGED <<cfgVars, token_cache, g, token, interface_id, oper_status, exit_code>>

DeviceTransportError ==
    /\ AtDevice
    /\ \E ok \in BOOLEAN : HandleRequestException(<<DeviceRequest("transport")>>, ok)
    /\ UNCHANGED <<cfgVars, token_cache, g, token, ifaceVars, exit_code>>

\* The inventory body made get_device_id raise (a hostname that is null, a
\* response that is no list of objects).
DeviceMalformed ==
    /\ AtDevice
    /\ \E ok \in BOOLEAN : HandleException(<<DeviceRequest("malformed")>>, ok)
    /\ UNCHANGED <<cfgVars, token_cache, g, token, ifaceVars, exit_code>>

DeviceStep ==
    \/ DevicesDone \/ DeviceEntryNotMapping \/ DeviceSkipNoName \/ DeviceFound
    \/ DeviceNotFound \/ DeviceTransportError \/ DeviceMalformed

\* ---------------------------------------------------- the interface loop
\* for interface_name in None: TypeError, taken by except Exception.
IfaceListMissing ==
    /\ pc = "iface"
    /\ ~HasKey(device_entry, "interfaces")
    /\ \E ok \in BOOLEAN : HandleException(<<>>, ok)
    /\ UNCHANGED <<cfgVars, token_cache, g, token, ifaceVars, exit_code>>

IfacesDone ==
    /\ pc = "iface"
    /\ HasKey(device_entry, "interfaces")
    /\ i > Len(interfaces_to_process)
    /\ NextDevice
    /\ UNCHANGED <<cfgVars, token_cache, g, token, ifaceVars, report, trace, log,
                   exit_code>>

AtIface ==
    /\ pc = "iface"
    /\ HasKey(device_entry, "interfaces")
    /\ i <= Len(interfaces_to_process)

IfaceRequest(res) == Request("interface", token, g, d, i, res)

\* The response object carries instanceUuid and status.
IfaceFound ==
    /\ AtIface
    /\ trace' = Append(trace, IfaceRequest("ok"))
    /\ interface_id' = interface_name
    /\ oper_status' = "up"
    /\ pc' = "util"
    /\ UNCHANGED <<cfgVars, token_cache, g, d, i, token, device_id, report, log, exit_code>>

\* 'response' is an object without instanceUuid (an empty object):
\* interface_id is None.
IfaceNotFound ==
    /\ AtIface
    /\ \E ok \in BOOLEAN :
         Emit(<<IfaceRequest("empty_object")>>,
              InterfaceNotFoundRow(dna_center_name, device_name, interface_name), ok,
              "Error: Interface not found")
    /\ interface_id' = NONE
    /\ oper_status' = NONE
    /\ i' = i + 1
    /\ UNCHANGED <<cfgVars, pc, token_cache, g, d, token, device_id, exit_code>>

IfaceTransportError ==
    /\ AtIface
    /\ \E ok \in BOOLEAN : HandleRequestException(<<IfaceRequest("transport")>>, ok)
    /\ UNCHANGED <<cfgVars, token_cache, g, token, ifaceVars, exit_code>>

\* The body has no 'response' key or an empty list under it: iface is [] and
\* iface.get raises AttributeError, taken by except Exception.
IfaceEmptyList ==
    /\ AtIface
    /\ \E ok \in BOOLEAN : HandleException(<<IfaceRequest("empty_list")>>, ok)
    /\ UNCHANGED <<cfgVars, token_cache, g, token, ifaceVars, exit_code>>

IfaceStep ==
    \/ IfaceListMissing \/ IfacesDone \/ IfaceFound \/ IfaceNotFound
    \/ IfaceTransportError \/ IfaceEmptyList

\* ------------------------------------------------------ utilization fetch
UtilRequest(res) == Request("utilization", token, g, d, i, res)

\* txUtilization and rxUtilization as the statistics body gives them; a
\* field the body lacks is None.
TxValues == {"12", NONE}
RxValues == {"7", NONE}

\* Which of the two fields the statistics body carries.
UtilResult(tx, rx) ==
    CASE tx # NONE /\ rx # NONE -> "ok"
      [] tx = NONE /\ rx # NONE -> "no_tx"
      [] tx # NONE /\ rx = NONE -> "no_rx"
      [] OTHER -> "no_tx_rx"

\* Variant of UtilOk: a statistics body without both fields raises, as a
\* subscript interface_stats['txUtilization'] would.
UtilOkStrict ==
    /\ pc = "util"
    /\ \E tx \in TxValues, rx \in RxValues, ok \in BOOLEAN :
         IF tx = NONE \/ rx = NONE
            THEN HandleException(<<UtilRequest(UtilResult(tx, rx))>>, ok)
            ELSE /\ Emit(<<UtilRequest("ok")>>,
                         ResultRow(dna_center_name, device_name, interface_name,
                                   oper_status, tx, rx), ok, NONE)
                 /\ i' = i + 1
                 /\ pc' = "iface"
                 /\ d' = d
    /\ UNCHANGED <<cfgVars, token_cache, g, token, ifaceVars, exit_code>>

UtilOk ==
    /\ pc = "util"
    /\ \E tx \in TxValues, rx \in RxValues, ok \in BOOLEAN :
         Emit(<<UtilRequest(UtilResult(tx, rx))>>,
              ResultRow(dna_center_name, device_name, interface_name, oper_status, tx, rx),
              ok, NONE)
    /\ i' = i + 1
    /\ pc' = "iface"
    /\ UNCHANGED <<cfgVars, token_cache, g, d, token, ifaceVars, exit_code>>

UtilTransportError ==
    /\ pc = "util"
    /\ \E ok \in BOOLEAN : HandleRequestException(<<UtilRequest("transport")>>, ok)
    /\ UNCHANGED <<cfgVars, token_cache, g, token, ifaceVars, exit_code>>

\* The statistics body is JSON null: 'response' in data raises TypeError.
UtilMalformed ==
    /\ pc = "util"
    /\ \E ok \in BOOLEAN : HandleException(<<UtilRequest("malformed")>>, ok)
    /\ UNCHANGED <<cfgVars, token_cache, g, token, ifaceVars, exit_code>>

UtilStep == UtilOk \/ UtilTransportError \/ UtilMalformed

\* ------------------------------------------------------------ the program
Next ==
    \/ ParseArgs
    \/ load_config
    \/ Setup
    \/ GroupStep
    \/ AuthStep
    \/ DeviceStep
    \/ IfaceStep
    \/ UtilStep

Spec == Init /\ [][Next]_vars

\* ------------------------------------------------- reading the run's trace
GroupName(gi) == Get(targets[gi], "dna_center_name", NONE)
DeviceEntry(gi, di) == Get(targets[gi], "devices", <<>>)[di]
DeviceName(gi, di) == Get(DeviceEntry(gi, di), "device_name", NONE)

IsTokenCall(k) == trace[k].op = "token"
IsLookup(k) == trace[k].op \in {"device", "interface", "utilization"}
IsAppend(k) == trace[k].op = "append"

\* The events the step adds to the trace.
Added == SubSeq(trace', Len(trace) + 1, Len(trace'))

\* ------------------------------------------------------------------ C1
\* C1 (as claimed): for every controller and every pattern of authentication
\* outcomes, get_token is invoked at most once for that controller, however
\* many target groups name it.
C1_AtMostOneAuthPerController ==
    \A k, m \in DOMAIN trace :
        (IsTokenCall(k) /\ IsTokenCall(m)
            /\ GroupName(trace[k].g) = GroupName(trace[m].g)) => k = m

\* C1 (amended): get_token is invoked at most once per target group, and once
\* a token request for a host has succeeded no further token request is made
\* for that host; a failed request is not remembered, so a later group naming
\* the same controller authenticates again.
C1_NoAuthAfterSuccessForHost ==
    \A k, m \in DOMAIN trace :
        (IsTokenCall(k) /\ IsTokenCall(m) /\ k < m) =>
            /\ trace[k].g < trace[m].g
            /\ trace[k].host = trace[m].host => trace[k].res # "ok"

\* A failed token request, a successful one for the same controller in the
\* next group, and a third group of that controller served from the cache.
C1_Witness ==
    \E k, m, n \in DOMAIN trace :
        /\ k < m /\ m < n
        /\ IsTokenCall(k) /\ trace[k].res = "transport"
        /\ IsTokenCall(m) /\ trace[m].res = "ok"
        /\ GroupName(trace[k].g) = GroupName(trace[m].g)
        /\ trace[n].op = "device" /\ trace[n].g > trace[m].g
        /\ trace[n].host = trace[m].host
        /\ \A j \in DOMAIN trace : IsTokenCall(j) => trace[j].g # trace[n].g

\* ------------------------------------------------------------------ C2
AuthFailureStep ==
    /\ pc = "auth"
    /\ Len(Added) = 1
    /\ Added[1].op = "token"
    /\ Added[1].res \in {"transport", "malformed"}

\* C2: when get_token fails for a target group, by a transport failure or by
\* a token response without the token field, the failure is printed, no row
\* is written, and the run goes on with the next target group, so that no
\* device of the failed group is looked up.
C2_AuthFailureSkipsGroupAndContinues ==
    [][AuthFailureStep =>
          /\ Len(log') = Len(log) + 1
          /\ report' = report
          /\ pc' = "group"
          /\ g' = g + 1]_vars

\* ------------------------------------------------------------------ C3
\* C3 (as claimed): once a token request for a controller has failed, no
\* device lookup is issued for any group naming that controller for the rest
\* of the run.
C3_NoDeviceAfterAuthFailure ==
    \A k, m \in DOMAIN trace :
        (k < m /\ IsTokenCall(k) /\ trace[k].res # "ok" /\ trace[m].op = "device")
            => GroupName(trace[m].g) # GroupName(trace[k].g)

\* C3 (amended): after a failed token request no lookup is issued and no row
\* is written for the group it was made for; a later group naming the same
\* controller is processed only after a later token request to that
\* controller's host has succeeded.
C3_FailedAuthSkipsItsGroupOnly ==
    \A k \in DOMAIN trace :
        (IsTokenCall(k) /\ trace[k].res # "ok") =>
            /\ \A m \in DOMAIN trace : m # k => trace[m].g # trace[k].g
            /\ \A m \in DOMAIN trace :
                  (m > k /\ IsLookup(m) /\ GroupName(trace[m].g) = GroupName(trace[k].g))
                     => \E j \in DOMAIN trace :
                           /\ k < j /\ j < m
                           /\ IsTokenCall(j) /\ trace[j].res = "ok"
                           /\ trace[j].host = trace[m].host

\* A failed token request for a controller, then a device lookup for a later
\* group of the same controller.
C3_Witness ==
    \E k, m \in DOMAIN trace :
        /\ k < m
        /\ IsTokenCall(k) /\ trace[k].res = "transport"
        /\ trace[m].op = "device"
        /\ GroupName(trace[m].g) = GroupName(trace[k].g)

\* ------------------------------------------------------------------ C4
ControllerKeys == {"name", "ip", "username", "password"}

\* The loaded document has at least one controller, every controller entry
\* complete, and at least one target group.
ValidConfig ==
    /\ HasKey(config, "dna_centers") /\ HasKey(config, "targets")
    /\ Len(config["dna_centers"]) >= 1
    /\ Len(config["targets"]) >= 1
    /\ \A k \in DOMAIN config["dna_centers"] :
          ControllerKeys \subseteq DOMAIN config["dna_centers"][k]

\* C4: for every configuration with at least one controller and one target
\* group, and every combination of lookup outcomes, the run ends having
\* attempted every target group, with exit code 0.
C4_ValidRunAttemptsEveryGroup ==
    (pc = "done" /\ ValidConfig) => (g >= Len(targets) /\ exit_code = 0)

\* ------------------------------------------------------------------ C5
\* The document lacks the controller list or the target list, or a controller
\* entry lacks a required field.
ConfigDefect(doc) ==
    \/ Get(doc, "dna_centers", <<>>) = <<>>
    \/ Get(doc, "targets", <<>>) = <<>>
    \/ \E k \in DOMAIN doc["dna_centers"] :
          ~(ControllerKeys \subseteq DOMAIN doc["dna_centers"][k])

\* C5: a configuration error (controller list or target list absent, a
\* controller entry without a required field) aborts the run before any
\* request has been issued and before any result row has been written.
C5_ConfigErrorBeforeAnyRequest ==
    (config_file.state = "ok" /\ ConfigDefect(config_file.doc)) =>
        /\ trace = <<>>
        /\ Len(report) <= 1

\* ------------------------------------------------------------------ C6
ArgsRejected == log # <<>> /\ log[1].msg = "usage: error"

\* load_config raised, or the document lacks the controller or target list.
ConfigLoadFailed ==
    \/ config_file.state \in {"missing", "malformed"}
    \/ Get(config_file.doc, "dna_centers", <<>>) = <<>>
    \/ Get(config_file.doc, "targets", <<>>) = <<>>

\* C6: the run ends with a non-zero exit code if and only if configuration
\* loading or parsing failed; every other run ends with exit code 0.
C6_NonZeroExitIffConfigFailure ==
    (pc = "done" /\ ~ArgsRejected) => ((exit_code # 0) <=> ConfigLoadFailed)

\* ------------------------------------------------------------------ C8
EmptyInterfaceResponseStep ==
    /\ pc = "iface"
    /\ Len(Added) >= 1
    /\ Added[1].op = "interface"
    /\ Added[1].res \in {"empty_object", "empty_list"}

\* C8: when the interface query for the K-th interface returns an empty
\* response, exactly one row with status "Interface Not Found" is written for
\* that interface, no utilization fetch is issued for it, and processing
\* continues with interface K+1 of the same device.
C8_EmptyResponseIsInterfaceNotFound ==
    [][EmptyInterfaceResponseStep =>
          /\ Len(Added) = 2
          /\ Added[2].op = "append"
          /\ Added[2].row = <<GroupName(g), DeviceName(g, d), DeviceEntry(g, d)["interfaces"][i],
                              "Interface Not Found", "N/A", "N/A">>
          /\ pc' = "iface"
          /\ g' = g /\ d' = d /\ i' = i + 1]_vars

\* ------------------------------------------------------------------ C7
SameDevice(k, m) == trace[k].g = trace[m].g /\ trace[k].d = trace[m].d

\* What append_to_excel_report leaves in the workbook for this append event.
Persisted(rep, ev) == IF ev.res = "ok" THEN Append(rep, ev.row) ELSE rep

DeviceNotFoundStep ==
    /\ pc = "device"
    /\ Len(Added) >= 1
    /\ Added[1].op = "device"
    /\ Added[1].res = "notfound"

\* C7: when the device lookup returns no match, exactly one row with status
\* "Device Not Found" and both utilization fields "N/A" is handed to the
\* report for that device (it is in the workbook unless the append itself
\* failed), no interface or utilization lookup is issued for that device, the
\* run is not aborted, and processing continues with the next device.
C7_DeviceNotFoundRowAndContinue ==
    /\ [](\A k \in DOMAIN trace :
            (trace[k].op = "device" /\ trace[k].res = "notfound") =>
                \A m \in DOMAIN trace :
                    (m # k /\ SameDevice(k, m)) => (m = k + 1 /\ IsAppend(m)))
    /\ [][DeviceNotFoundStep =>
            /\ Len(Added) = 2
            /\ Added[2].op = "append"
            /\ Added[2].row = <<GroupName(g), DeviceName(g, d), "N/A", "Device Not Found",
                                "N/A", "N/A">>
            /\ report' = Persisted(report, Added[2])
            /\ pc' = "device"
            /\ g' = g /\ d' = d + 1
            /\ exit_code' = exit_code]_vars

\* A device that was not found, its row in the workbook, and the lookup of
\* the next device of the group after it.
C7_Witness ==
    \E k, m \in DOMAIN trace :
        /\ trace[k].op = "device" /\ trace[k].res = "notfound"
        /\ k + 1 \in DOMAIN trace /\ trace[k + 1].res = "ok"
        /\ report[Len(report)] = trace[k + 1].row
        /\ m = k + 2
        /\ trace[m].op = "device" /\ trace[m].g = trace[k].g /\ trace[m].d = trace[k].d + 1

\* ------------------------------------------------------------------ C9
InterfaceTransportFailure(e) ==
    e.op \in {"interface", "utilization"} /\ e.res = "transport"

IsErrorRow(k) == IsAppend(k) /\ trace[k].row[4] \in {"API Error", "Unexpected Error"}

TransportFailureStep ==
    /\ pc \in {"iface", "util"}
    /\ Len(Added) >= 1
    /\ InterfaceTransportFailure(Added[1])

\* C9: if the interface lookup or the utilization fetch for the K-th
\* interface of a device fails with a transport failure, exactly one error
\* row is handed to the report for that device, the rows of interfaces
\* 1..K-1 stay, nothing is looked up or written for interfaces K+1..N of
\* that device, and processing continues with the next device.
C9_TransportFailureEndsDevice ==
    /\ [](\A k \in DOMAIN trace :
            InterfaceTransportFailure(trace[k]) =>
                /\ \A m \in DOMAIN trace :
                      (SameDevice(k, m) /\ m > k) => m = k + 1
                /\ \A m \in DOMAIN trace :
                      (SameDevice(k, m) /\ IsErrorRow(m)) => m = k + 1
                /\ \A j \in 1..(trace[k].i - 1) :
                      \E m \in 1..(k - 1) :
                          SameDevice(k, m) /\ IsAppend(m) /\ trace[m].i = j)
    /\ [][TransportFailureStep =>
            /\ Len(Added) = 2
            /\ Added[2].op = "append"
            /\ Added[2].row = <<GroupName(g), DeviceName(g, d), "N/A", "API Error",
                                "N/A", "N/A">>
            /\ report' = Persisted(report, Added[2])
            /\ pc' = "device"
            /\ g' = g /\ d' = d + 1]_vars

\* A transport failure on the second interface of a device whose first
\* interface has its row in the workbook, then the lookup of the next device.
C9_Witness ==
    \E k, m \in DOMAIN trace :
        /\ InterfaceTransportFailure(trace[k]) /\ trace[k].i = 2
        /\ Len(DeviceEntry(trace[k].g, trace[k].d)["interfaces"]) >= 2
        /\ \E r \in DOMAIN report, a \in 1..(k - 1) :
              /\ IsAppend(a) /\ SameDevice(k, a) /\ trace[a].i = 1
              /\ report[r] = trace[a].row
        /\ m > k
        /\ trace[m].op = "device" /\ trace[m].g = trace[k].g /\ trace[m].d = trace[k].d + 1

\* ------------------------------------------------------------------ C10
Emitted == {k \in DOMAIN trace : IsAppend(k)}
InterfaceLookups == {k \in DOMAIN trace : trace[k].op = "interface"}
FailedDeviceLookups == {k \in DOMAIN trace : trace[k].op = "device" /\ trace[k].res # "ok"}
\* Devices that were found and whose entry has no 'interfaces' key.
FoundWithoutInterfaceList ==
    {k \in DOMAIN trace :
        /\ trace[k].op = "device" /\ trace[k].res = "ok"
        /\ ~HasKey(DeviceEntry(trace[k].g, trace[k].d), "interfaces")}

\* C10 (as claimed): at the end of a run the number of rows equals the number
\* of (device, interface) pairs for which an interface lookup was issued plus
\* one per device whose device lookup failed.
C10_RowCount ==
    pc = "done" =>
        Cardinality(Emitted) = Cardinality(InterfaceLookups) + Cardinality(FailedDeviceLookups)

\* C10 (amended): at the end of a run the number of rows handed to the report
\* equals the number of (device, interface) pairs for which an interface
\* lookup was issued, plus one per device whose device lookup failed (not
\* found, transport failure or malformed response), plus one per device that
\* was found but whose entry has no interface list; the workbook holds the
\* header and those of these rows whose append did not fail.
C10_RowCountWithMissingInterfaceList ==
    pc = "done" =>
        /\ Cardinality(Emitted) =
              Cardinality(InterfaceLookups) + Cardinality(FailedDeviceLookups)
                + Cardinality(FoundWithoutInterfaceList)
        /\ report # <<>> =>
              Len(report) = 1 + Cardinality({k \in Emitted : trace[k].res = "ok"})
        /\ report = <<>> => Emitted = {}

\* A finished run with a found device that has no interface list, a device
\* whose lookup failed and an interface lookup.
C10_Witness ==
    /\ pc = "done"
    /\ FoundWithoutInterfaceList # {}
    /\ InterfaceLookups # {}
    /\ \E k \in Emitted : trace[k].res = "fail"

\* ------------------------------------------------------------------ C11
\* The names of the entries of the controller list.
ControllerNames ==
    {config["dna_centers"][k]["name"] : k \in DOMAIN Get(config, "dna_centers", <<>>)}

UnknownController(gi) == GroupName(gi) # NONE /\ GroupName(gi) \notin ControllerNames

UnknownControllerStep ==
    /\ pc = "group"
    /\ g <= Len(targets)
    /\ UnknownController(g)

\* C11: a target group whose controller name matches no entry of the
\* controller list produces no row and no network request (only a printed
\* message), does not end the run, and the run goes on with the target group
\* listed after it.
C11_UnknownControllerSkipsGroupOnly ==
    /\ [](\A k \in DOMAIN trace : ~UnknownController(trace[k].g))
    /\ [][UnknownControllerStep =>
            /\ trace' = trace
            /\ report' = report
            /\ Len(log') = Len(log) + 1
            /\ pc' = "group"
            /\ g' = g + 1
            /\ exit_code' = exit_code]_vars

\* A group naming an unknown controller was passed over and a device of a
\* group listed after it was looked up.
C11_Witness ==
    \E m \in DOMAIN trace :
        /\ trace[m].op = "device"
        /\ \E j \in 1..(trace[m].g - 1) : UnknownController(j)

\* ------------------------------------------------------------------ C12
\* The step ends with a call of append_to_excel_report.
AppendStep == Len(Added) >= 1 /\ Added[Len(Added)].op = "append"

\* Rows that stand for a whole device.
DeviceLevelRow(row) == row[4] \in {"Device Not Found", "API Error", "Unexpected Error"}

\* C12: a failed append does not stop orchestration and writes no error row
\* of its own: a step that hands a row to the report makes exactly one append
\* attempt, leaves the workbook as it was when the attempt fails, and goes on
\* to the position that the row alone determines (the next device after a
\* device-level row, the next interface after an interface row), whether the
\* attempt succeeded or failed; exit status, token and cache are untouched.
C12_AppendFailureDoesNotChangeTheRun ==
    [][AppendStep =>
          LET e == Added[Len(Added)] IN
            /\ \A k \in 1..(Len(Added) - 1) : Added[k].op # "append"
            /\ report' = Persisted(report, e)
            /\ g' = g
            /\ exit_code' = exit_code
            /\ token_cache' = token_cache /\ token' = token
            /\ IF DeviceLevelRow(e.row)
                  THEN pc' = "device" /\ d' = d + 1 /\ i' = 0
                  ELSE pc' = "iface" /\ d' = d /\ i' = i + 1]_vars

\* A failed append of an interface row, then the lookup and the append of
\* the next interface of the same device.
C12_Witness ==
    \E k \in DOMAIN trace :
        /\ IsAppend(k) /\ trace[k].res = "fail" /\ ~DeviceLevelRow(trace[k].row)
        /\ k + 1 \in DOMAIN trace
        /\ trace[k + 1].op = "interface" /\ SameDevice(k, k + 1)
        /\ trace[k + 1].i = trace[k].i + 1
        /\ \E n \in DOMAIN trace : n > k + 1 /\ IsAppend(n) /\ SameDevice(k, n)
        /\ Len(report) = 1 + Cardinality({m \in Emitted : trace[m].res = "ok"})

\* ------------------------------------------------------------------ C13
\* The statistics body of a found interface lacks a utilization field.
MissingUtilizationStep ==
    /\ pc = "util"
    /\ Len(Added) >= 1
    /\ Added[1].op = "utilization"
    /\ Added[1].res \in {"no_tx", "no_rx", "no_tx_rx"}

\* C13: when the statistics response of a found interface lacks the tx
\* and/or the rx utilization field, no error is printed and no error row is
\* written: one row is handed to the report with the interface's name, its
\* operational status, None in the place of each missing value and the value
\* in the place of each present one, and the run goes on with the next
\* interface of the same device.
C13_MissingUtilizationIsNotAnError ==
    [][MissingUtilizationStep =>
          /\ Len(Added) = 2
          /\ Added[2].op = "append"
          /\ SubSeq(Added[2].row, 1, 4) =
                <<GroupName(g), DeviceName(g, d), DeviceEntry(g, d)["interfaces"][i],
                  oper_status>>
          /\ oper_status = "up"
          /\ (Added[2].row[5] = "None") <=> (Added[1].res \in {"no_tx", "no_tx_rx"})
          /\ (Added[2].row[6] = "None") <=> (Added[1].res \in {"no_rx", "no_tx_rx"})
          /\ Added[2].row[5] \in {"12", "None"} /\ Added[2].row[6] \in {"7", "None"}
          /\ report' = Persisted(report, Added[2])
          /\ Len(log') = Len(log) + (IF Added[2].res = "ok" THEN 0 ELSE 1)
          /\ pc' = "iface"
          /\ g' = g /\ d' = d /\ i' = i + 1]_vars

\* The first interface of a device had a statistics body without the tx
\* field, its row is in the workbook with the rx value, and the second
\* interface of the device was looked up next.
C13_Witness ==
    \E k \in DOMAIN trace :
        /\ trace[k].op = "utilization" /\ trace[k].res = "no_tx" /\ trace[k].i = 1
        /\ k + 2 \in DOMAIN trace
        /\ IsAppend(k + 1) /\ trace[k + 1].res = "ok"
        /\ trace[k + 1].row[5] = "None" /\ trace[k + 1].row[6] = "7"
        /\ \E r \in DOMAIN report : report[r] = trace[k + 1].row
        /\ trace[k + 2].op = "interface" /\ SameDevice(k, k + 2) /\ trace[k + 2].i = 2

\* ------------------------------------------------------------------ C14
\* A controller answer that yields a result row: a failed device lookup, an
\* interface lookup that found nothing or failed, any utilization answer.
ProducesResult(e) ==
    \/ e.op \in {"device", "interface"} /\ e.res # "ok"
    \/ e.op = "utilization"

SuccessfulAppends == SelectSeq(trace, LAMBDA e : e.op = "append" /\ e.res = "ok")

\* The rows of the successful appends so far, in order.
RowsSaved == [k \in 1..Len(SuccessfulAppends) |-> SuccessfulAppends[k].row]

\* C14: results are never buffered: in the sequence of requests and appends
\* of the run, every answer that yields a result is followed at once by the
\* append of the row for the same device and interface, before any further
\* request; and at every point of the run the workbook holds the header and
\* the row of every append made so far that did not fail.
C14_NoBuffering ==
    /\ \A k \in DOMAIN trace :
          ProducesResult(trace[k]) =>
              /\ k + 1 \in DOMAIN trace
              /\ IsAppend(k + 1)
              /\ SameDevice(k, k + 1)
              /\ trace[k + 1].i = trace[k].i
    /\ Emitted # {} => report = <<HEADERS>> \o RowsSaved

\* The run has just issued a request, the event before it is a successful
\* append, and the row of that append is the last row of the workbook.
C14_Witness ==
    /\ Len(trace) >= 3
    /\ IsLookup(Len(trace))
    /\ IsAppend(Len(trace) - 1) /\ trace[Len(trace) - 1].res = "ok"
    /\ report[Len(report)] = trace[Len(trace) - 1].row
    /\ Len(report) >= 3

\* ------------------------------------------------------------------ C15
DevicesOf(gi) == Get(targets[gi], "devices", <<>>)

\* The device at position di of group gi was looked up.
DeviceAttempted(gi, di) ==
    \E m \in DOMAIN trace : trace[m].op = "device" /\ trace[m].g = gi /\ trace[m].d = di

\* C15: failure isolation across siblings, read at the end of a run over a
\* valid configuration: whatever failed on the way, the group loop has gone
\* through every target group; in every group of which a device was looked
\* up, every later named device was looked up too; and an interface of a
\* looked-up interface list is left out only behind an error row of its
\* device.
C15_FailuresDoNotStopSiblings ==
    (pc = "done" /\ ValidConfig) =>
        /\ g = Len(targets) + 1
        /\ \A k \in DOMAIN trace :
              trace[k].op = "device" =>
                  \A di \in (trace[k].d + 1)..Len(DevicesOf(trace[k].g)) :
                      DeviceName(trace[k].g, di) # NONE => DeviceAttempted(trace[k].g, di)
        /\ \A k \in DOMAIN trace :
              (trace[k].op = "interface"
                  /\ trace[k].i < Len(DeviceEntry(trace[k].g, trace[k].d)["interfaces"])) =>
                  \/ \E m \in DOMAIN trace :
                        /\ trace[m].op = "interface" /\ SameDevice(k, m)
                        /\ trace[m].i = trace[k].i + 1
                  \/ \E m \in DOMAIN trace : IsErrorRow(m) /\ SameDevice(k, m)

\* ------------------------------------------------------------------ C16
\* Event k lies before event m in configuration order.
ConfigOrder(k, m) ==
    \/ trace[k].g < trace[m].g
    \/ trace[k].g = trace[m].g /\ trace[k].d < trace[m].d
    \/ SameDevice(k, m) /\ trace[k].i < trace[m].i

\* The row of append event k names the group and the device at the event's
\* position of the configuration, and the interface there unless it is a
\* device-level row.
RowAtItsPosition(k) ==
    /\ trace[k].row[1] = GroupName(trace[k].g)
    /\ trace[k].row[2] = DeviceName(trace[k].g, trace[k].d)
    /\ IF DeviceLevelRow(trace[k].row)
          THEN trace[k].row[3] = "N/A"
          ELSE trace[k].row[3] = DeviceEntry(trace[k].g, trace[k].d)["interfaces"][trace[k].i]

\* C16: rows are written in configuration order: every row names the items
\* at the position it was written for, of any two rows the one written first
\* is for an earlier target group, or an earlier device of the same group, or
\* an earlier interface of the same device (the error row of a device is
\* written at the interface that failed, after the rows of the interfaces
\* before it), and the workbook keeps the rows in the order written.
C16_RowsInConfigurationOrder ==
    /\ \A k \in Emitted : RowAtItsPosition(k)
    /\ \A k, m \in Emitted : k < m => ConfigOrder(k, m)
    /\ \A r \in 2..Len(report) : report[r] = RowsSaved[r - 1]

\* The row of the first interface of a device, then the error row of the
\* device written at its second interface, then a row of the next device,
\* all three in the workbook.
C16_Witness ==
    \E k, m, n \in Emitted :
        /\ k < m /\ m < n
        /\ SameDevice(k, m) /\ trace[k].i = 1 /\ trace[m].i = 2
        /\ ~DeviceLevelRow(trace[k].row) /\ IsErrorRow(m)
        /\ trace[n].g = trace[m].g /\ trace[n].d = trace[m].d + 1
        /\ Len(report) = 4
        /\ report[2] = trace[k].row /\ report[3] = trace[m].row /\ report[4] = trace[n].row

\* ------------------------------------------------------------------ C17
\* The target group gi names a controller of the list.
KnownController(gi) == HasKey(dna_centers_config, GroupName(gi))
HostOf(gi) == dna_centers_config[GroupName(gi)]["ip"]

\* A token request for host h succeeded before event k.
CachedBefore(h, k) ==
    \E j \in 1..(k - 1) : IsTokenCall(j) /\ trace[j].res = "ok" /\ trace[j].host = h

\* C17: a failed authentication leaves the token cache as it was: every
\* token obtained so far is still cached for its host, and, read at the end
\* of a run over a valid configuration, every target group listed after the
\* failed one that names a controller whose host had a token by then has had
\* no token request and has had each of its named devices looked up with
\* that cached token.
C17_FailedAuthKeepsCacheUsable ==
    /\ \A j \in DOMAIN trace :
          (IsTokenCall(j) /\ trace[j].res = "ok") =>
              /\ trace[j].host \in DOMAIN token_cache
              /\ token_cache[trace[j].host] = trace[j].cred
    /\ (pc = "done" /\ ValidConfig) =>
          \A k \in DOMAIN trace :
              (IsTokenCall(k) /\ trace[k].res # "ok") =>
                  \A gj \in (trace[k].g + 1)..Len(targets) :
                      (KnownController(gj) /\ CachedBefore(HostOf(gj), k)) =>
                          /\ \A m \in DOMAIN trace : IsTokenCall(m) => trace[m].g # gj
                          /\ \A di \in DOMAIN DevicesOf(gj) :
                                DeviceName(gj, di) # NONE =>
                                    \E m \in DOMAIN trace :
                                        /\ trace[m].op = "device"
                                        /\ trace[m].g = gj /\ trace[m].d = di
                                        /\ trace[m].cred = token_cache[HostOf(gj)]

\* ------------------------------------------------------------------ C18
\* The token get_token yields for the controller entry that group gi names.
OwnToken(gi) ==
    [host |-> dna_centers_config[GroupName(gi)]["ip"],
     username |-> dna_centers_config[GroupName(gi)]["username"],
     password |-> dna_centers_config[GroupName(gi)]["password"]]

\* C18: every device, interface and utilization request made for a target
\* group carries a token obtained by authenticating with the host and the
\* credentials of the controller entry that group names, also when two
\* controller entries share a host.
C18_RequestsCarryOwnControllersToken ==
    \A k \in DOMAIN trace : IsLookup(k) => trace[k].cred = OwnToken(trace[k].g)

\* ------------------------------------------------------------------ C19
\* C19: no device, interface or utilization request is issued to a host
\* unless a token request for that host has succeeded earlier in the run,
\* and the request carries the token cached for that host; once a token is
\* cached for a host, no step replaces or removes it.
C19_AuthBeforeLookupAndCacheMonotone ==
    /\ [](\A k \in DOMAIN trace :
            IsLookup(k) =>
                /\ CachedBefore(trace[k].host, k)
                /\ trace[k].host \in DOMAIN token_cache
                /\ trace[k].cred = token_cache[trace[k].host])
    /\ [][\A h \in DOMAIN token_cache :
            /\ h \in DOMAIN token_cache'
            /\ token_cache'[h] = token_cache[h]]_vars

\* Tokens of two hosts are cached, and a device of the first host was looked
\* up after the token of the second host was stored.
C19_Witness ==
    /\ Cardinality(DOMAIN token_cache) = 2
    /\ \E j0, j, k \in DOMAIN trace :
          /\ j0 < j /\ j < k
          /\ IsTokenCall(j0) /\ trace[j0].res = "ok"
          /\ IsTokenCall(j) /\ trace[j].res = "ok"
          /\ IsLookup(k) /\ trace[k].host = trace[j0].host
          /\ trace[j].host # trace[j0].host

\* ------------------------------------------------------------------ C20
\* A step in which processing the current device raises something that is
\* no transport failure: a lookup body that makes the client function
\* raise, a device entry without an interface list, a device entry that is
\* no mapping.
NonTransportFailureStep ==
    \/ /\ pc \in {"device", "iface", "util"}
       /\ Len(Added) >= 1
       /\ Added[1].op \in {"device", "interface", "utilization"}
       /\ Added[1].res \in {"malformed", "empty_list"}
    \/ /\ pc = "iface"
       /\ ~HasKey(DeviceEntry(g, d), "interfaces")
    \/ /\ pc = "device"
       /\ d <= Len(DevicesOf(g))
       /\ ~IsMapping(DeviceEntry(g, d))

\* C20: any non-transport failure raised while processing a device is
\* contained at the device boundary: exactly one "Unexpected Error" row is
\* handed to the report for that device, nothing more is looked up or written
\* for the device, and the run continues with the next device instead of
\* ending.
C20_DeviceFailureContained ==
    /\ [](\A k, m \in DOMAIN trace :
            (IsAppend(k) /\ trace[k].row[4] = "Unexpected Error" /\ SameDevice(k, m))
                => m <= k)
    /\ [][NonTransportFailureStep =>
            /\ Len(Added) >= 1
            /\ \A k \in 1..(Len(Added) - 1) : Added[k].op # "append"
            /\ Added[Len(Added)].op = "append"
            /\ Added[Len(Added)].row =
                  <<GroupName(g), DeviceName(g, d), "N/A", "Unexpected Error", "N/A", "N/A">>
            /\ report' = Persisted(report, Added[Len(Added)])
            /\ pc' = "device"
            /\ g' = g /\ d' = d + 1
            /\ exit_code' = exit_code]_vars
====
